---- MODULE Spec2Model ----
(***************************************************************************)
(* Model of src/main.cpp: the register-access test harness of the          *)
(* robotarmclick firmware.  One thread of control runs main(): it clears   *)
(* the four LEDs, runs the five tests of the table in order through        *)
(* run_tests, and then either flashes all LEDs forever (all tests passed)  *)
(* or shows the number of the failing test on the LEDs and returns.        *)
(*                                                                         *)
(* Every action below is one bus transaction (i2c.write / i2c.read) or one *)
(* control step of main / run_tests, together with the straight-line code  *)
(* that follows it up to the next transaction.  The I2C slave is the       *)
(* environment: its kind, the fixed high nibble of its register 0, and the *)
(* acknowledgement of every transaction are chosen nondeterministically.   *)
(***************************************************************************)
EXTENDS Integers, Sequences, FiniteSets, TLC

VARIABLES
    pc,             \* position of the thread of control
    n,              \* run_tests: index into the test table
    i,              \* loop counter of the running test
    j,              \* counter of the set-up loops and of check_all_register
    regs,           \* char regs[5] of tests 3 and 4
    reg_address,    \* local reg_address of the running test
    value,          \* local value of the running test
    value_received, \* byte returned by the last read (value in check_all_register)
    result,         \* return value of the test function that just returned
    ret,            \* main: int ret = run_tests(tests)
    exitCode,       \* return value of main, -1 while main has not returned
    leds,           \* led1..led4
    out,            \* lines printed on stdout
    errout,         \* lines printed on stderr
    randomMode,     \* build: the TEST_*_RANDOM switches (all 1, or all 0)
    devKind,        \* environment: which slave is on the bus
    dev,            \* environment: registers 0..4 of the slave
    sel,            \* environment: register the slave returns on a read
    calls,          \* history: numbers of the tests run_tests has called
    outcomes,       \* history: what each called test returned
    busFailedIn,    \* history: number of the test in which a transaction failed, 0 if none
    txAfterFail,    \* history: a transaction was issued after a failed one
    chkSeen,        \* history: reads made by the current check_all_register call
    chkRet,         \* history: what the last check_all_register call returned
    maxInvalid      \* history: highest address written by the loop of test 4 or 5

vars == <<pc, n, i, j, regs, reg_address, value, value_received, result, ret,
          exitCode, leds, out, errout, randomMode, devKind, dev, sel, calls,
          outcomes, busFailedIn, txAfterFail, chkSeen, chkRet, maxInvalid>>

(***************************************************************************)
(* Program constants                                                       *)
(***************************************************************************)
TEST_WRITE_READ_REG_1_4_COUNT == 100
TEST_WRITE_READ_REG_0_COUNT == 10
TEST_WRITE_REG_READ_ALL_COUNT == 500
TEST_WRITE_INVALID_REG_READ_ALL_COUNT == 500
TEST_WRITE_INVALID_REG_READ_ZERO_COUNT == 500

\* struct test tests[] of main: five entries before the {NULL, NULL} sentinel
tests ==
    <<"write/read registers 1-4", "write/read register 0", "write reg/read all",
      "write invalid reg/read all", "write invalid reg/read zero">>

NumTests == Len(tests)

(***************************************************************************)
(* Bounds                                                                  *)
(***************************************************************************)
\* A loop whose body draws from rand() is explored for at most MaxIter
\* iterations; a loop of a deterministic build runs its full count.
MaxIter == 5

\* Results of rand() used to pick a register of tests 1 and 3: 0..MaxSelector.
MaxSelector == 4

RandSelectors == 0..MaxSelector

\* Results of rand() used to pick an invalid register of tests 4 and 5
\* (249 is the largest residue modulo 250, 250 wraps to the smallest).
RandInvalid == {0, 249, 250}

\* Results of rand() used as a value (421 = 0x1A5 is truncated to 0xA5).
RandValues == {0, 421}

\* Fixed high nibble of register 0 of the slave (0x00 or 0xA0).
HighNibbles == {0, 160}

DevKinds == {"conforming", "echo0", "corrupt2on3"}

NoReg == 255

(***************************************************************************)
(* Pure helpers                                                            *)
(***************************************************************************)
\* conversion of an int to (unsigned) char
Byte(x) == x % 256

\* c & 0x0F
LowNibble(c) == c % 16

\* c & (1 << b) != 0
BitSet(c, b) == (c \div (2 ^ b)) % 2 = 1

\* mutant of I2cSuccess: the status of the transaction is ignored
I2cIgnoreStatus(status) == TRUE

\* i2c.write(...) == 0, i2c.read(...) == 0
I2cSuccess(status) == status = 0

\* status returned by the I2C driver: 0 on success, non-zero on failure
Status == {0, 1}

LoopCount(count, random) == IF random /\ count > MaxIter THEN MaxIter ELSE count

\* the count of the loop of test number n+1 as explored
TestCount ==
    CASE n = 0 -> LoopCount(TEST_WRITE_READ_REG_1_4_COUNT, randomMode)
      [] n = 1 -> LoopCount(TEST_WRITE_READ_REG_0_COUNT, randomMode)
      [] n = 2 -> LoopCount(TEST_WRITE_REG_READ_ALL_COUNT, TRUE)
      [] n = 3 -> LoopCount(TEST_WRITE_INVALID_REG_READ_ALL_COUNT, randomMode)
      [] OTHER -> LoopCount(TEST_WRITE_INVALID_REG_READ_ZERO_COUNT, randomMode)

\* test 1: rand() % 4, i % 4
Reg14Address(r) == r % 4

\* test 3: rand() % 5
Reg04Address(r) == r % 5

\* tests 4 and 5: (rand() % 250) + 5, (i % 250) + 5
InvalidRegAddress(r) == (r % 250) + 5

\* mutant of RegMatches: register 0 is compared exactly, like registers 1-4
RegMatchesExact(k, v, expected) == v = expected

\* check_all_register: the comparison of the value read from register k
RegMatches(k, v, expected) ==
    IF k = 0 THEN LowNibble(v) = LowNibble(expected) ELSE v = expected

\* mutant of ShadowStore: the value is kept in the entry of the next register
ShadowStoreNext(r, a, v) == [r EXCEPT ![(a + 1) % 5] = Byte(v)]

\* test 3: regs[reg_address] = rand()
ShadowStore(r, a, v) == [r EXCEPT ![a] = Byte(v)]

\* mutant of led_show_number: every LED tests the bit above its own
led_show_number_shifted(c, l) ==
    [k \in 1..4 |-> IF BitSet(c, k) THEN 1 ELSE l[k]]

\* led_show_number(c): switches on the LEDs of the set bits of c
led_show_number(c, l) ==
    [k \in 1..4 |-> IF BitSet(c, k - 1) THEN 1 ELSE l[k]]

\* mutant of flash_leds: the LEDs are switched on whatever v is
flash_leds_stuck(v) == [k \in 1..4 |-> 1]

\* flash_all_leds: led1 = led2 = led3 = led4 = v
flash_leds(v) == [k \in 1..4 |-> v]

\* mutant of FailIndex: return n
FailIndexZeroBased(m) == m

\* run_tests: return n+1
FailIndex(m) == m + 1

(***************************************************************************)
(* The slave                                                               *)
(***************************************************************************)
\* registers after a two-byte write (addr, val)
DevWrite(d, kind, addr, val) ==
    LET stored == IF addr = 0 /\ kind # "echo0"
                  THEN (d[0] \div 16) * 16 + LowNibble(val)
                  ELSE val
        d1 == IF addr \in 0..4 THEN [d EXCEPT ![addr] = stored] ELSE d
    IN  IF kind = "corrupt2on3" /\ addr = 3 THEN [d1 EXCEPT ![2] = 255 - d1[2]] ELSE d1

\* register selected by a write whose first byte is addr
DevSelect(addr) == IF addr \in 0..4 THEN addr ELSE NoReg

\* byte returned by a one-byte read
DevRead(d, s) == IF s \in 0..4 THEN d[s] ELSE 0

(***************************************************************************)
(* Initial state: globals constructed, main not yet entered                *)
(***************************************************************************)
ZeroRegs == [k \in 0..4 |-> 0]

Init ==
    /\ pc = "main"
    /\ n = 0 /\ i = 0 /\ j = 0
    /\ regs = ZeroRegs
    /\ reg_address = 0 /\ value = 0 /\ value_received = 0
    /\ result = TRUE
    /\ ret = 0
    /\ exitCode = -1
    /\ leds = [k \in 1..4 |-> 0]
    /\ out = <<>>
    /\ errout = <<>>
    /\ randomMode \in BOOLEAN
    /\ devKind \in DevKinds
    /\ \E h \in HighNibbles : dev = [ZeroRegs EXCEPT ![0] = h]
    /\ sel = 0
    /\ calls = <<>>
    /\ outcomes = <<>>
    /\ busFailedIn = 0
    /\ txAfterFail = FALSE
    /\ chkSeen = <<>>
    /\ chkRet = "none"
    /\ maxInvalid = 0

(***************************************************************************)
(* Building blocks of the actions                                          *)
(***************************************************************************)
\* bookkeeping of one bus transaction with status st
Tx(st) ==
    /\ txAfterFail' = (txAfterFail \/ busFailedIn # 0)
    /\ busFailedIn' = IF st # 0 /\ busFailedIn = 0 THEN n + 1 ELSE busFailedIn

\* the running test function returns b
Return(b) ==
    /\ pc' = "ret"
    /\ result' = b
    /\ outcomes' = Append(outcomes, b)

\* end of a loop body: ++i, then the loop test
NextIter ==
    IF i + 1 < TestCount
    THEN /\ pc' = "test"
         /\ i' = i + 1
         /\ UNCHANGED <<result, outcomes>>
    ELSE /\ Return(TRUE)
         /\ UNCHANGED i

\* i2c.write(SLAVE_ADDRESS, {addr, val}, 2) with status st
BusWrite(addr, val, st) ==
    /\ Tx(st)
    /\ IF st = 0
       THEN dev' = DevWrite(dev, devKind, addr, val) /\ sel' = DevSelect(addr)
       ELSE UNCHANGED <<dev, sel>>

UNCH_main == UNCHANGED <<n, ret, exitCode, leds, out, randomMode, devKind, calls>>

(***************************************************************************)
(* main and run_tests                                                      *)
(***************************************************************************)
\* main: led1 = 0 ... led4 = 0, then the call of run_tests (n = 0)
MainInit ==
    /\ pc = "main"
    /\ leds' = [k \in 1..4 |-> 0]
    /\ n' = 0
    /\ pc' = "run_tests"
    /\ UNCHANGED <<i, j, regs, reg_address, value, value_received, result, ret,
                   exitCode, out, errout, randomMode, devKind, dev, sel, calls,
                   outcomes, busFailedIn, txAfterFail, chkSeen, chkRet, maxInvalid>>

\* run_tests: the loop test holds; print the header and call tests[n].f
CallTest ==
    /\ pc = "run_tests"
    /\ n < NumTests
    /\ out' = Append(out, [test |-> n + 1, name |-> tests[n + 1], verdict |-> ""])
    /\ calls' = Append(calls, n + 1)
    /\ pc' = IF n \in {2, 3} THEN "init" ELSE "test"
    /\ i' = 0 /\ j' = 0
    /\ regs' = ZeroRegs
    /\ UNCHANGED <<n, reg_address, value, value_received, result, ret, exitCode,
                   leds, errout, randomMode, devKind, dev, sel, outcomes,
                   busFailedIn, txAfterFail, chkSeen, chkRet, maxInvalid>>

\* run_tests: tests[n] is the sentinel; return 0
RunTestsDone ==
    /\ pc = "run_tests"
    /\ n >= NumTests
    /\ ret' = 0
    /\ pc' = "main_ret"
    /\ UNCHANGED <<n, i, j, regs, reg_address, value, value_received, result,
                   exitCode, leds, out, errout, randomMode, devKind, dev, sel,
                   calls, outcomes, busFailedIn, txAfterFail, chkSeen, chkRet, maxInvalid>>

\* run_tests: tests[n].f() has returned
TestReturn ==
    /\ pc = "ret"
    /\ IF ~result
       THEN /\ out' = [out EXCEPT ![Len(out)].verdict = "FAIL"]
            /\ ret' = FailIndex(n)
            /\ pc' = "main_ret"
            /\ UNCHANGED n
       ELSE /\ out' = [out EXCEPT ![Len(out)].verdict = "PASS"]
            /\ n' = n + 1
            /\ pc' = "run_tests"
            /\ UNCHANGED ret
    /\ i' = 0 /\ j' = 0 /\ regs' = ZeroRegs
    /\ reg_address' = 0 /\ value' = 0 /\ value_received' = 0
    /\ chkSeen' = <<>> /\ chkRet' = "none" /\ maxInvalid' = 0
    /\ UNCHANGED <<result, exitCode, leds, errout, randomMode, devKind, dev, sel,
                   calls, outcomes, busFailedIn, txAfterFail>>

\* main: ret == 0: print the success line and enter flash_all_leds
MainPassed ==
    /\ pc = "main_ret"
    /\ ret = 0
    /\ out' = Append(out, [test |-> 0, name |-> "All tests passed.", verdict |-> ""])
    /\ pc' = "flash_on"
    /\ UNCHANGED <<n, i, j, regs, reg_address, value, value_received, result, ret,
                   exitCode, leds, errout, randomMode, devKind, dev, sel, calls,
                   outcomes, busFailedIn, txAfterFail, chkSeen, chkRet, maxInvalid>>

\* main: ret != 0: led_show_number(ret); return 0
MainFailed ==
    /\ pc = "main_ret"
    /\ ret # 0
    /\ leds' = led_show_number(Byte(ret), leds)
    /\ exitCode' = 0
    /\ pc' = "done"
    /\ UNCHANGED <<n, i, j, regs, reg_address, value, value_received, result, ret,
                   out, errout, randomMode, devKind, dev, sel, calls, outcomes,
                   busFailedIn, txAfterFail, chkSeen, chkRet, maxInvalid>>

\* flash_all_leds: all LEDs on, wait_ms(100)
FlashOn ==
    /\ pc = "flash_on"
    /\ leds' = flash_leds(1)
    /\ pc' = "flash_off"
    /\ UNCHANGED <<n, i, j, regs, reg_address, value, value_received, result, ret,
                   exitCode, out, errout, randomMode, devKind, dev, sel, calls,
                   outcomes, busFailedIn, txAfterFail, chkSeen, chkRet, maxInvalid>>

\* flash_all_leds: all LEDs off, wait_ms(100)
FlashOff ==
    /\ pc = "flash_off"
    /\ leds' = flash_leds(0)
    /\ pc' = "flash_on"
    /\ UNCHANGED <<n, i, j, regs, reg_address, value, value_received, result, ret,
                   exitCode, out, errout, randomMode, devKind, dev, sel, calls,
                   outcomes, busFailedIn, txAfterFail, chkSeen, chkRet, maxInvalid>>

(***************************************************************************)
(* The test functions, one action per bus transaction                      *)
(***************************************************************************)
\* the running test function returns false from inside its loop
Fail == Return(FALSE) /\ UNCHANGED i

\* address that read_register was called with
ReadAddr ==
    CASE n = 0 -> reg_address
      [] n = 1 -> 0
      [] OTHER -> j

\* the running test reads through check_all_register
InCheck == n \in {2, 3}

\* test_write_read_reg_1_4: pick the register and the value, write_register
T1Write ==
    /\ pc = "test" /\ n = 0
    /\ \E r1 \in RandSelectors, r2 \in RandValues, st \in Status :
          /\ reg_address' = Byte(Reg14Address(IF randomMode THEN r1 ELSE i))
          /\ value' = Byte(IF randomMode THEN r2 ELSE i)
          /\ value_received' = 0
          /\ BusWrite(reg_address', value', st)
          /\ IF I2cSuccess(st)
             THEN pc' = "rr_sel" /\ UNCHANGED <<result, outcomes>>
             ELSE Return(FALSE)
    /\ UNCHANGED <<i, j, regs, errout, chkSeen, chkRet, maxInvalid>>
    /\ UNCH_main

\* test_write_read_reg_0: pick the value, write_register(0, value)
T2Write ==
    /\ pc = "test" /\ n = 1
    /\ \E r2 \in RandValues, st \in Status :
          /\ value' = Byte(IF randomMode THEN r2 ELSE i)
          /\ value_received' = 0
          /\ BusWrite(0, value', st)
          /\ IF I2cSuccess(st)
             THEN pc' = "rr_sel" /\ UNCHANGED <<result, outcomes>>
             ELSE Return(FALSE)
    /\ UNCHANGED <<i, j, regs, reg_address, errout, chkSeen, chkRet, maxInvalid>>
    /\ UNCH_main

\* test_write_reg_read_all: the set-up loop, write_register(i, 0)
T3Init ==
    /\ pc = "init" /\ n = 2
    /\ \E st \in Status :
          /\ BusWrite(j, 0, st)
          /\ IF I2cSuccess(st)
             THEN /\ IF j + 1 < 5
                     THEN j' = j + 1 /\ pc' = "init"
                     ELSE j' = 0 /\ pc' = "test"
                  /\ UNCHANGED <<result, outcomes>>
             ELSE Return(FALSE) /\ UNCHANGED j
    /\ UNCHANGED <<i, regs, reg_address, value, value_received, errout, chkSeen, chkRet, maxInvalid>>
    /\ UNCH_main

\* test_write_reg_read_all: pick the register, store the value in regs,
\* write_register, then call check_all_register(regs)
T3Write ==
    /\ pc = "test" /\ n = 2
    /\ \E r1 \in RandSelectors, r2 \in RandValues, st \in Status :
          /\ reg_address' = Reg04Address(r1)
          /\ regs' = ShadowStore(regs, reg_address', r2)
          /\ BusWrite(reg_address', regs'[reg_address'], st)
          /\ IF I2cSuccess(st)
             THEN pc' = "rr_sel" /\ UNCHANGED <<result, outcomes>>
             ELSE Return(FALSE)
    /\ j' = 0
    /\ chkSeen' = <<>> /\ chkRet' = "none"
    /\ UNCHANGED <<i, value, value_received, errout, maxInvalid>>
    /\ UNCH_main

\* test_write_invalid_reg_read_all: the set-up loop, regs[i] = rand() or i,
\* write_register(i, regs[i])
T4Init ==
    /\ pc = "init" /\ n = 3
    /\ \E r2 \in RandValues, st \in Status :
          /\ regs' = [regs EXCEPT ![j] = Byte(IF randomMode THEN r2 ELSE j)]
          /\ BusWrite(j, regs'[j], st)
          /\ IF I2cSuccess(st)
             THEN /\ IF j + 1 < 5
                     THEN j' = j + 1 /\ pc' = "init"
                     ELSE j' = 0 /\ pc' = "test"
                  /\ UNCHANGED <<result, outcomes>>
             ELSE Return(FALSE) /\ UNCHANGED j
    /\ UNCHANGED <<i, reg_address, value, value_received, errout, chkSeen, chkRet, maxInvalid>>
    /\ UNCH_main

\* test_write_invalid_reg_read_all: write an invalid register, then call
\* check_all_register(regs)
T4Write ==
    /\ pc = "test" /\ n = 3
    /\ \E r1 \in RandInvalid, r2 \in RandValues, st \in Status :
          /\ reg_address' = Byte(InvalidRegAddress(IF randomMode THEN r1 ELSE i))
          /\ value' = Byte(IF randomMode THEN r2 ELSE i)
          /\ BusWrite(reg_address', value', st)
          /\ IF I2cSuccess(st)
             THEN pc' = "rr_sel" /\ UNCHANGED <<result, outcomes>>
             ELSE Return(FALSE)
    /\ j' = 0
    /\ chkSeen' = <<>> /\ chkRet' = "none"
    /\ maxInvalid' = IF reg_address' > maxInvalid THEN reg_address' ELSE maxInvalid
    /\ UNCHANGED <<i, regs, value_received, errout>>
    /\ UNCH_main

\* test_write_invalid_reg_read_zero: write an invalid register
T5Write ==
    /\ pc = "test" /\ n = 4
    /\ \E r1 \in RandInvalid, r2 \in RandValues, st \in Status :
          /\ reg_address' = Byte(InvalidRegAddress(IF randomMode THEN r1 ELSE i))
          /\ value' = Byte(IF randomMode THEN r2 ELSE i)
          /\ BusWrite(reg_address', value', st)
          /\ IF I2cSuccess(st)
             THEN /\ pc' = "raw_read"
                  /\ value_received' = 255
                  /\ UNCHANGED <<result, outcomes>>
             ELSE Return(FALSE) /\ UNCHANGED value_received
    /\ maxInvalid' = IF reg_address' > maxInvalid THEN reg_address' ELSE maxInvalid
    /\ UNCHANGED <<i, j, regs, errout, chkSeen, chkRet>>
    /\ UNCH_main

\* test_write_invalid_reg_read_zero: i2c.read without a register address,
\* then the comparison with zero
T5RawRead ==
    /\ pc = "raw_read" /\ n = 4
    /\ \E st \in Status :
          /\ Tx(st)
          /\ value_received' = IF st = 0 THEN DevRead(dev, sel) ELSE value_received
          /\ IF I2cSuccess(st) /\ value_received' = 0 THEN NextIter ELSE Fail
    /\ UNCHANGED <<j, regs, reg_address, value, errout, chkSeen, chkRet, dev, sel, maxInvalid>>
    /\ UNCH_main

\* read_register: i2c.write(SLAVE_ADDRESS, &addr, 1)
ReadSelect ==
    /\ pc = "rr_sel"
    /\ \E st \in Status :
          /\ Tx(st)
          /\ sel' = IF st = 0 THEN DevSelect(ReadAddr) ELSE sel
          /\ IF I2cSuccess(st)
             THEN /\ pc' = "rr_read"
                  /\ UNCHANGED <<result, outcomes, chkSeen, chkRet>>
             ELSE /\ Return(FALSE)
                  /\ IF InCheck
                     THEN /\ chkSeen' = Append(chkSeen, [reg |-> j, ok |-> FALSE, val |-> 0])
                          /\ chkRet' = "false"
                     ELSE UNCHANGED <<chkSeen, chkRet>>
    /\ value_received' = IF InCheck THEN 0 ELSE value_received
    /\ UNCHANGED <<i, j, regs, reg_address, value, errout, dev, maxInvalid>>
    /\ UNCH_main

\* read_register: i2c.read(SLAVE_ADDRESS, val, 1), and the caller's
\* comparison of the value read
ReadData ==
    /\ pc = "rr_read"
    /\ \E st \in Status :
          LET v == IF st = 0 THEN DevRead(dev, sel) ELSE value_received IN
          /\ Tx(st)
          /\ value_received' = v
          /\ IF ~I2cSuccess(st)
             THEN /\ Fail
                  /\ IF InCheck
                     THEN /\ chkSeen' = Append(chkSeen, [reg |-> j, ok |-> FALSE, val |-> v])
                          /\ chkRet' = "false"
                     ELSE UNCHANGED <<chkSeen, chkRet>>
                  /\ UNCHANGED <<j, errout>>
             ELSE CASE n = 0 ->
                       /\ IF value # v
                          THEN /\ errout' = Append(errout, [wrote |-> value, reg |-> reg_address, read |-> v])
                               /\ Fail
                          ELSE NextIter /\ UNCHANGED errout
                       /\ UNCHANGED <<j, chkSeen, chkRet>>
                    [] n = 1 ->
                       /\ IF LowNibble(value) # LowNibble(v)
                          THEN /\ errout' = Append(errout, [wrote |-> LowNibble(value), reg |-> 0, read |-> LowNibble(v)])
                               /\ Fail
                          ELSE NextIter /\ UNCHANGED errout
                       /\ UNCHANGED <<j, chkSeen, chkRet>>
                    [] OTHER ->
                       /\ chkSeen' = Append(chkSeen, [reg |-> j, ok |-> TRUE, val |-> v])
                       /\ UNCHANGED errout
                       /\ IF ~RegMatches(j, v, regs[j])
                          THEN chkRet' = "false" /\ Fail /\ UNCHANGED j
                          ELSE IF j + 1 < 5
                               THEN /\ j' = j + 1
                                    /\ pc' = "rr_sel"
                                    /\ UNCHANGED <<i, result, outcomes, chkRet>>
                               ELSE /\ chkRet' = "true"
                                    /\ NextIter
                                    /\ UNCHANGED j
    /\ UNCHANGED <<regs, reg_address, value, dev, sel, maxInvalid>>
    /\ UNCH_main

(***************************************************************************)
(* Specifications                                                          *)
(***************************************************************************)
Next ==
    \/ MainInit
    \/ CallTest
    \/ RunTestsDone
    \/ TestReturn
    \/ MainPassed
    \/ MainFailed
    \/ FlashOn
    \/ FlashOff
    \/ T1Write
    \/ T2Write
    \/ T3Init
    \/ T3Write
    \/ T4Init
    \/ T4Write
    \/ T5Write
    \/ T5RawRead
    \/ ReadSelect
    \/ ReadData

Spec == Init /\ [][Next]_vars

\* The single thread of control always runs: a step that is possible is taken.
FairSpec == Spec /\ WF_vars(Next)

TypeOK ==
    /\ pc \in {"main", "run_tests", "init", "test", "rr_sel", "rr_read", "raw_read",
               "ret", "main_ret", "flash_on", "flash_off", "done"}
    /\ n \in 0..NumTests
    /\ i \in 0..500 /\ j \in 0..4
    /\ regs \in [0..4 -> 0..255]
    /\ reg_address \in 0..255 /\ value \in 0..255 /\ value_received \in 0..255
    /\ result \in BOOLEAN
    /\ ret \in 0..NumTests
    /\ exitCode \in {-1, 0}
    /\ leds \in [1..4 -> {0, 1}]
    /\ dev \in [0..4 -> 0..255]
    /\ sel \in 0..4 \cup {NoReg}
    /\ busFailedIn \in 0..NumTests
    /\ txAfterFail \in BOOLEAN
    /\ chkRet \in {"none", "true", "false"}
    /\ maxInvalid \in 0..255

(***************************************************************************)
(* Vocabulary of the properties                                            *)
(***************************************************************************)
Conforming == devKind = "conforming"

NoBusError == busFailedIn = 0

\* run_tests has returned
RunOver == pc \in {"main_ret", "flash_on", "flash_off", "done"}

\* the terminal states of the runner
Passed == pc \in {"flash_on", "flash_off"}

FailedAt(k) == pc = "done" /\ ret = k

\* number of the first test that returned false, 0 when none did
FirstFailing(o) ==
    IF \E k \in 1..Len(o) : ~o[k]
    THEN CHOOSE k \in 1..Len(o) : ~o[k] /\ \A m \in 1..(k - 1) : o[m]
    ELSE 0

PassLine(k) == [test |-> k, name |-> tests[k], verdict |-> "PASS"]

FailLine(k) == [test |-> k, name |-> tests[k], verdict |-> "FAIL"]

SuccessLine == [test |-> 0, name |-> "All tests passed.", verdict |-> ""]

\* the LEDs show the low four bits of k
LedsEncode(k) == \A b \in 1..4 : (leds[b] = 1) <=> ((k \div (2 ^ (b - 1))) % 2 = 1)

\* the position is inside test number t, after the write of a loop iteration
AfterLoopWrite(t) == n = t - 1 /\ pc \in {"rr_sel", "rr_read", "raw_read"}

\* the shadow agrees with the slave: registers 1-4 exactly, register 0 in its low nibble
ShadowAgrees ==
    /\ dev[0] % 16 = regs[0] % 16
    /\ \A k \in 1..4 : dev[k] = regs[k]

\* the read recorded in e matches the expected value of its register
SeenMatches(e) ==
    /\ e.ok
    /\ IF e.reg = 0 THEN e.val % 16 = regs[0] % 16 ELSE e.val = regs[e.reg]

(***************************************************************************)
(* C1: run_tests calls the tests in table order from the first entry, each *)
(* at most once, calls no test after one that returned false, prints PASS  *)
(* for every test before the first failing one, and returns the 1-based    *)
(* index of the first failing test, or 0 when all five passed.             *)
(***************************************************************************)
C1_RunTestsOrder ==
    /\ \A k \in 1..Len(calls) : calls[k] = k
    /\ Len(calls) <= NumTests
    /\ Len(outcomes) \in {Len(calls), Len(calls) - 1}
    /\ \A k \in 1..Len(outcomes) : ~outcomes[k] => Len(calls) = k
    /\ \A k \in 1..Len(calls) : k < Len(calls) => out[k] = PassLine(k)
    /\ RunOver =>
          /\ Len(outcomes) = Len(calls)
          /\ ret = FirstFailing(outcomes)
          /\ ret = 0 => Len(calls) = NumTests
          /\ ret # 0 => out[ret] = FailLine(ret) /\ Len(calls) = ret

C1_Witness == FailedAt(4) /\ outcomes = <<TRUE, TRUE, TRUE, FALSE>>

(***************************************************************************)
(* C2: a deterministic build run against a conforming slave without bus    *)
(* errors prints five PASS lines and "All tests passed." and ends Passed,  *)
(* never FailedAt(i).                                                      *)
(***************************************************************************)
C2_DeterministicSuitePasses ==
    (~randomMode /\ Conforming /\ NoBusError /\ RunOver) =>
        /\ pc # "done"
        /\ ret = 0
        /\ \A k \in 1..NumTests : out[k] = PassLine(k)
        /\ Passed => out = [k \in 1..(NumTests + 1) |->
                               IF k <= NumTests THEN PassLine(k) ELSE SuccessLine]

(***************************************************************************)
(* C3: against a slave that corrupts register 2 on every write to register *)
(* 3 (and no bus errors) a failing run fails at test 3: tests 1 and 2      *)
(* print PASS, run_tests returns 3 and the LEDs show 0011.                 *)
(***************************************************************************)
C3_CorruptingDeviceFailsAtTest3 ==
    (devKind = "corrupt2on3" /\ NoBusError /\ pc = "done") =>
        /\ ret = 3
        /\ out = <<PassLine(1), PassLine(2), FailLine(3)>>
        /\ leds = [k \in 1..4 |-> IF k \in {1, 2} THEN 1 ELSE 0]

(***************************************************************************)
(* C4: in every iteration of test 1, in both value-generation modes, the   *)
(* register written and read back lies in 1..4, never register 0.          *)
(***************************************************************************)
C4_Test1AddressIn1to4 ==
    (n = 0 /\ pc \in {"rr_sel", "rr_read", "ret"}) => reg_address \in 1..4

(***************************************************************************)
(* C5: when the run ends in FailedAt(i), i >= 1, the LEDs hold the 4-bit   *)
(* binary encoding of i (led k on iff bit k-1 of i is set), main has       *)
(* returned 0, and nothing can happen afterwards.                          *)
(***************************************************************************)
C5_FailureShownOnLeds ==
    pc = "done" =>
        /\ ret \in 1..NumTests
        /\ ret = Len(calls)
        /\ LedsEncode(ret)
        /\ exitCode = 0
        /\ ~ENABLED Next

C5_Witness == FailedAt(5) /\ leds = [k \in 1..4 |-> IF k \in {1, 3} THEN 1 ELSE 0]

(***************************************************************************)
(* C6: when all five tests pass the program prints "All tests passed."     *)
(* once and never returns: from then on the four LEDs are equal to each    *)
(* other between toggles, their common value is on infinitely often and    *)
(* off infinitely often, and no test is called again.                      *)
(***************************************************************************)
AllFivePassed == Len(outcomes) = NumTests /\ \A k \in 1..NumTests : outcomes[k]

AllLeds(v) == \A k \in 1..4 : leds[k] = v

C6_PassedState ==
    Passed =>
        /\ AllLeds(0) \/ AllLeds(1)
        /\ AllFivePassed
        /\ exitCode = -1
        /\ Len(out) = NumTests + 1
        /\ out[NumTests + 1] = SuccessLine
        /\ \A k \in 1..NumTests : out[k] # SuccessLine

C6_PassedForever == Passed => (Passed' /\ calls' = calls /\ out' = out)

C6_FlashForever ==
    /\ []C6_PassedState
    /\ [][C6_PassedForever]_vars
    /\ (AllFivePassed ~> Passed)
    /\ (Passed ~> AllLeds(1))
    /\ (Passed ~> AllLeds(0))

C6_Witness == pc = "flash_off" /\ AllLeds(1) /\ AllFivePassed

(***************************************************************************)
(* C7: the addresses written by the loops of tests 4 and 5 are exactly     *)
(* 5..255: each written address is in 5..255, and every address of 5..255, *)
(* 255 included, is produced by the address generator (so a complete       *)
(* deterministic sweep of test 4 has written address 255).                 *)
(***************************************************************************)
GeneratorRange ==
    {InvalidRegAddress(r) : r \in 0..(TEST_WRITE_INVALID_REG_READ_ALL_COUNT - 1)}

C7_InvalidAddressesExactly5to255 ==
    /\ (AfterLoopWrite(4) \/ AfterLoopWrite(5)) => reg_address \in 5..255
    /\ (AfterLoopWrite(4) \/ AfterLoopWrite(5)) => GeneratorRange = 5..255
    /\ (~randomMode /\ n = 3 /\ pc = "ret" /\ result) => maxInvalid = 255

(***************************************************************************)
(* C8: a failed bus transaction is not retried and is the last transaction *)
(* of the run: the running test returns false and the run ends in FailedAt *)
(* of that test.                                                           *)
(***************************************************************************)
C8_BusFailureAborts ==
    /\ ~txAfterFail
    /\ busFailedIn # 0 =>
          /\ pc \in {"ret", "main_ret", "done"}
          /\ Len(outcomes) = busFailedIn
          /\ ~outcomes[busFailedIn]
          /\ pc = "ret" => (~result /\ n + 1 = busFailedIn)
          /\ pc \in {"main_ret", "done"} => ret = busFailedIn

C8_Witness == FailedAt(4) /\ busFailedIn = 4

(***************************************************************************)
(* C9: check_all_register reads registers 0,1,2,3,4 in that order; it      *)
(* returns true iff all five reads succeed and match (register 0 in the    *)
(* low nibble only, registers 1-4 exactly); it returns false at the first  *)
(* bus error or mismatch without reading a higher register.                *)
(***************************************************************************)
C9_CheckAllRegister ==
    /\ Len(chkSeen) <= 5
    /\ \A k \in 1..Len(chkSeen) : chkSeen[k].reg = k - 1
    /\ \A k \in 1..(Len(chkSeen) - 1) : SeenMatches(chkSeen[k])
    /\ chkRet = "true" <=> (Len(chkSeen) = 5 /\ SeenMatches(chkSeen[5]))
    /\ chkRet = "false" <=> (Len(chkSeen) >= 1 /\ ~SeenMatches(chkSeen[Len(chkSeen)]))

C9_Witness == chkRet = "true" /\ chkSeen[1].val # regs[0] /\ regs[0] # 0

(***************************************************************************)
(* C10: in test 3 against a conforming slave without bus errors the shadow *)
(* regs agrees with the slave after the all-zero set-up and after every    *)
(* write of the loop, every check_all_register call succeeds and test 3    *)
(* returns true.                                                           *)
(***************************************************************************)
C10_ShadowTracksDevice ==
    (Conforming /\ NoBusError /\ n = 2 /\ pc \in {"test", "rr_sel", "rr_read", "ret"}) =>
        /\ ShadowAgrees
        /\ chkRet # "false"
        /\ pc = "ret" => result

C10_Witness ==
    /\ Conforming /\ NoBusError /\ n = 2 /\ pc = "ret" /\ result
    /\ \A k \in 0..4 : regs[k] = 165
    /\ dev[0] # regs[0]

====
